---- MODULE Spec2Model ----
(***************************************************************************)
(* State-machine model of backend.py: the module-level training_status     *)
(* flag, the train-model request handlers and the training threads they    *)
(* start, the read-only endpoints, and the /api/stream websocket handler.  *)
(*                                                                         *)
(* Sync endpoints run on worker threads, so a handler is split where       *)
(* another thread can interleave with an effect on shared state:           *)
(* train_model between its test (line 60) and Thread.start (line 62),      *)
(* train_model_thread between its two writes (lines 54 and 56).  The       *)
(* websocket handler is split at its awaits.                               *)
(***************************************************************************)
EXTENDS Integers, Sequences, FiniteSets

\* ---- bounds ------------------------------------------------------------
NumCallers == 2   \* train-model handlers that can be in flight at once
MaxRuns == 2      \* training threads ever started
NumSessions == 2  \* websocket connections

Runs == 1..MaxRuns
Sessions == 1..NumSessions

\* ---- program constants ---------------------------------------------------
None == "None"                                  \* Python's None
activities == <<"walking", "running", "jumping">>
sequence_length == 128
StreamTicks == 5                                \* range(5)
WindowLens == {sequence_length - 1, sequence_length, sequence_length + 1}
SampleCounts == {0, 1000}                       \* samples: int = 1000
Durations == {3, 5}                             \* durations a client asks for

VARIABLES
    training_status,  \* training_status["status"]
    thread,           \* position of each training thread
    pending,          \* train-model handlers between line 60 and line 62
    response,         \* body of the response returned most recently
    ws                \* per websocket connection: handler position and output

vars == <<training_status, thread, pending, response, ws>>

NoResponse == [op |-> "none"]

\* prediction is data["prediction"] of the handler's local data, kept while
\* data is live (from the statement that builds it to the end of the loop
\* body) and None otherwise; inbound holds the messages the client has sent
\* on the connection and the handler has not received
NoSession == [pc |-> "connecting", i |-> 0, sent |-> 0,
              prediction |-> None, peer |-> "open", inbound |-> <<>>]

Init ==
    /\ training_status = None
    /\ thread = [t \in Runs |-> "unstarted"]
    /\ pending = 0
    /\ response = NoResponse
    /\ ws = [s \in Sessions |-> NoSession]

\* ---- read-only endpoints -------------------------------------------------
\* what each handler returns in the current state
model_info_flagged ==
    [trained |-> training_status # None, classes |-> <<>>,
     sequence_length |-> sequence_length]

model_info ==
    [trained |-> FALSE, classes |-> <<>>, sequence_length |-> sequence_length]

get_training_status ==
    <<[status |-> training_status, accuracy |-> None]>>

predict(len) ==
    [predicted_activity |-> "unknown", confidence |-> 0]

GetModelInfo ==
    /\ response' = [op |-> "model_info", content |-> model_info]
    /\ UNCHANGED <<training_status, thread, pending, ws>>

GetStatus ==
    /\ response' = [op |-> "get_training_status",
                    content |-> get_training_status]
    /\ UNCHANGED <<training_status, thread, pending, ws>>

Predict ==
    \E len \in WindowLens :
        /\ response' = [op |-> "predict", window |-> len,
                        content |-> predict(len)]
        /\ UNCHANGED <<training_status, thread, pending, ws>>

\* ---- ingestion -----------------------------------------------------------
\* The module keeps no samples: data is a local of generate_training_data,
\* gone when it returns, and upload_csv reads nothing from the file.
sample_store == <<>>

generate_training_data ==
    \E samples \in SampleCounts :
        /\ response' = [op |-> "generate_training_data",
                        content |-> [samples |-> samples,
                                     activities |-> activities]]
        /\ UNCHANGED <<training_status, thread, pending, ws>>

upload_csv ==
    /\ response' = [op |-> "upload_csv",
                    content |-> [samples |-> 0, activities |-> <<>>]]
    /\ UNCHANGED <<training_status, thread, pending, ws>>

\* ---- training ------------------------------------------------------------
Started(t) == thread[t] # "unstarted"
Active(t) == thread[t] \in {"line54", "line55"}
Done(t) == thread[t] = "done"
Unstarted == {t \in Runs : ~Started(t)}

\* line 54: the new thread's first statement
train_model_thread_54(t) ==
    /\ thread[t] = "line54"
    /\ training_status' = "training"
    /\ thread' = [thread EXCEPT ![t] = "line55"]
    /\ UNCHANGED <<pending, response, ws>>

\* lines 55-56: the sleep ends and the thread's last statement runs
train_model_thread_56_skip(t) ==
    /\ thread[t] = "line55"
    /\ thread' = [thread EXCEPT ![t] = "done"]
    /\ UNCHANGED <<training_status, pending, response, ws>>

train_model_thread_56(t) ==
    /\ thread[t] = "line55"
    /\ training_status' = "trained"
    /\ thread' = [thread EXCEPT ![t] = "done"]
    /\ UNCHANGED <<pending, response, ws>>

train_model_thread(t) == train_model_thread_54(t) \/ train_model_thread_56(t)

\* lines 60-61: the test of the flag.  The handlers are alike, so the model
\* counts those that have passed the test and not yet started their thread;
\* a call that passes needs a free handler and one of the MaxRuns threads.
train_model_60 ==
    /\ IF training_status = "training"
         THEN /\ response' = [op |-> "train_model",
                              content |-> [status |-> "already_training"]]
              /\ UNCHANGED pending
         ELSE /\ pending < NumCallers
              /\ pending < Cardinality(Unstarted)
              /\ pending' = pending + 1
              /\ UNCHANGED response
    /\ UNCHANGED <<training_status, thread, ws>>

\* lines 62-63: Thread(target=train_model_thread).start() and the return
train_model_62 ==
    /\ pending > 0
    /\ LET t == CHOOSE u \in Unstarted : \A v \in Unstarted : u <= v
       IN thread' = [thread EXCEPT ![t] = "line54"]
    /\ response' = [op |-> "train_model",
                    content |-> [status |-> "training_started"]]
    /\ pending' = pending - 1
    /\ UNCHANGED <<training_status, ws>>

train_model == train_model_60 \/ train_model_62

TrainNext ==
    \/ train_model
    \/ \E t \in Runs : train_model_thread(t)
    \/ GetStatus
    \/ GetModelInfo
    \/ Predict
    \/ generate_training_data
    \/ upload_csv

\* ---- websocket streaming -------------------------------------------------
\* line 73: await ws.accept()
ws_accept(s) ==
    /\ ws[s].pc = "connecting"
    /\ ws' = [ws EXCEPT ![s].pc = "line79"]
    /\ UNCHANGED <<training_status, thread, pending, response>>

\* lines 75-79: one message with a random prediction is built and sent; a
\* send to a peer that has gone raises and ends the handler
ws_send_broadcast(s) ==
    /\ ws[s].pc = "line79"
    /\ IF ws[s].peer = "open"
         THEN \E k \in 1..Len(activities) :
                ws' = [ws EXCEPT ![s].pc = "line80",
                                 ![s].sent = @ + 1,
                                 ![s].prediction = activities[k]]
         ELSE ws' = [r \in Sessions |->
                        IF ws[r].pc \in {"line79", "line80", "line81"}
                          THEN [ws[r] EXCEPT !.pc = "error"] ELSE ws[r]]
    /\ UNCHANGED <<training_status, thread, pending, response>>

ws_send(s) ==
    /\ ws[s].pc = "line79"
    /\ IF ws[s].peer = "open"
         THEN \E k \in 1..Len(activities) :
                ws' = [ws EXCEPT ![s].pc = "line80",
                                 ![s].sent = @ + 1,
                                 ![s].prediction = activities[k]]
         ELSE ws' = [ws EXCEPT ![s].pc = "error"]
    /\ UNCHANGED <<training_status, thread, pending, response>>

\* line 80 and the loop header of line 74: the sleep ends, i advances
ws_sleep_inclusive(s) ==
    /\ ws[s].pc = "line80"
    /\ ws' = [ws EXCEPT ![s].i = @ + 1,
                        ![s].prediction = None,
                        ![s].pc = IF ws[s].i + 1 <= StreamTicks
                                    THEN "line79" ELSE "line81"]
    /\ UNCHANGED <<training_status, thread, pending, response>>

ws_sleep(s) ==
    /\ ws[s].pc = "line80"
    /\ ws' = [ws EXCEPT ![s].i = @ + 1,
                        ![s].prediction = None,
                        ![s].pc = IF ws[s].i + 1 < StreamTicks
                                    THEN "line79" ELSE "line81"]
    /\ UNCHANGED <<training_status, thread, pending, response>>

\* line 81: await ws.close(); on a peer that has gone the close either
\* passes silently or raises, the handler ends in both cases
ws_close(s) ==
    /\ ws[s].pc = "line81"
    /\ \/ ws' = [ws EXCEPT ![s].pc = "closed"]
       \/ /\ ws[s].peer = "gone"
          /\ ws' = [ws EXCEPT ![s].pc = "error"]
    /\ UNCHANGED <<training_status, thread, pending, response>>

websocket_endpoint(s) ==
    ws_accept(s) \/ ws_send(s) \/ ws_sleep(s) \/ ws_close(s)

\* the client closes an accepted connection
ClientDisconnect(s) ==
    /\ ws[s].pc \in {"line79", "line80", "line81"}
    /\ ws[s].peer = "open"
    /\ ws' = [ws EXCEPT ![s].peer = "gone"]
    /\ UNCHANGED <<training_status, thread, pending, response>>

StreamNext ==
    \/ \E s \in Sessions : websocket_endpoint(s)
    \/ \E s \in Sessions : ClientDisconnect(s)

\* ---- what a client sends on its connection ---------------------------------
\* websocket_endpoint never calls a receive of ws: a message of the client
\* stays in the connection's inbound queue and no statement depends on it.
Config(d) == [type |-> "config", activity |-> "walking", duration_seconds |-> d]
Stop == [type |-> "stop"]

\* the configuration message, sent on open before the first tick
ClientConfig(s) ==
    /\ ws[s].pc = "line79" /\ ws[s].sent = 0
    /\ ws[s].peer = "open"
    /\ ws[s].inbound = <<>>
    /\ \E d \in Durations :
         ws' = [ws EXCEPT ![s].inbound = Append(@, Config(d))]
    /\ UNCHANGED <<training_status, thread, pending, response>>

\* the explicit stop signal, sent once while the session runs
ClientStop(s) ==
    /\ ws[s].pc \in {"line79", "line80", "line81"}
    /\ ws[s].peer = "open"
    /\ \A k \in 1..Len(ws[s].inbound) : ws[s].inbound[k] # Stop
    /\ ws' = [ws EXCEPT ![s].inbound = Append(@, Stop)]
    /\ UNCHANGED <<training_status, thread, pending, response>>

ClientNext ==
    \/ \E s \in Sessions : ClientConfig(s)
    \/ \E s \in Sessions : ClientStop(s)

Next == TrainNext \/ StreamNext

Spec == Init /\ [][Next]_vars

\* The HTTP side alone, with the training threads scheduled fairly: a started
\* thread runs to its end.  No websocket step reads or writes a variable of
\* the HTTP side, so the HTTP side behaves the same with or without them.
TrainFairSpec ==
    /\ Init /\ [][TrainNext]_vars
    /\ \A t \in Runs : WF_vars(train_model_thread(t))

\* The websocket side alone, with the messages of the clients, the handlers
\* scheduled fairly: the event loop resumes a handler whose await is over.
\* No step of the HTTP side reads or writes ws.
StreamFairSpec ==
    /\ Init /\ [][StreamNext \/ ClientNext]_vars
    /\ \A s \in Sessions : WF_vars(websocket_endpoint(s))

\* ---- the manager's modes ---------------------------------------------------
ActiveRuns == {t \in Runs : Active(t)}
Busy == ActiveRuns # {}
Accepting == ActiveRuns = {}
Rejected == [op |-> "train_model", content |-> [status |-> "already_training"]]

\* C1: at most one training run is active at any instant, whatever the
\* interleaving of the train-model calls.
C1_AtMostOneRunning == Cardinality(ActiveRuns) <= 1

\* C2: a train-model call that arrives while a run is active returns
\* already_training and changes nothing else: the status, the threads, the
\* calls on their way to start a thread and the sessions stay as they were.
C2_BusyCallRejected ==
    [][(Busy /\ train_model_60) =>
          /\ response' = Rejected
          /\ UNCHANGED <<training_status, thread, pending, ws>>]_vars

\* C3: when an accepted call returns training_started, the status already
\* reads "training": a query that begins after the acknowledgement cannot
\* see the status that held before the request.
C3_AckImpliesRunning ==
    [][train_model_62 => training_status' = "training"]_vars

\* C4: every started run reaches its end, and a train-model call that tests
\* the flag when a run has completed and no run is active passes the test
\* (it goes on to start a thread) instead of being rejected.
C4_RunsCompleteThenAccepting ==
    /\ \A t \in Runs : Active(t) ~> Done(t)
    /\ [][(Accepting /\ (\E t \in Runs : Done(t)) /\ train_model_60)
            => pending' = pending + 1]_vars

C4_Witness ==
    /\ Accepting
    /\ training_status = "trained"
    /\ \E t \in Runs : Done(t)
    /\ pending > 0

\* C5: no training-status response carries a successful status with a null
\* accuracy, or a failed status without an error message.
C5_NoTornStatus ==
    response.op = "get_training_status" =>
        LET r == response.content[1] IN
        /\ r.status = "trained" => r.accuracy # None
        /\ r.status = "failed" => "error" \in DOMAIN r

\* C6: once a run has completed successfully, model-info reports a trained
\* model with a non-empty class list.
C6_TrainedAfterSuccess ==
    (\E t \in Runs : Done(t)) =>
        /\ model_info.trained = TRUE
        /\ model_info.classes # <<>>

\* C7: what model-info reports changes only in a step in which a run
\* completes; every other step (a train-model call, a run starting, a status
\* query, a predict call, a websocket step) leaves it as it was.
C7_ModelInfoFrame ==
    [][model_info' # model_info => \E t \in Runs : train_model_thread_56(t)]_vars

C7_Witness ==
    /\ response = Rejected
    /\ \E t \in Runs : Done(t)
    /\ \E t \in Runs : Active(t)
    /\ \E s \in Sessions : ws[s].sent > 0
    /\ model_info = [trained |-> FALSE, classes |-> <<>>,
                     sequence_length |-> 128]

\* C8: while no sample has been ingested no run is started: a train-model
\* call is accepted only after samples were ingested.
C8_NoRunWithoutSamples ==
    Len(sample_store) = 0 => \A t \in Runs : ~Started(t)

\* C10: the training status reported is that of the most recently accepted
\* run: while an accepted run has not completed, the status reads "training".
C10_StatusOfLatestRun ==
    Busy => get_training_status[1].status = "training"

\* ---- streaming sessions ------------------------------------------------------
Configured(s) ==
    /\ ws[s].inbound # <<>>
    /\ ws[s].inbound[1].type = "config"
Stopped(s) == \E k \in 1..Len(ws[s].inbound) : ws[s].inbound[k] = Stop
Cancelled(s) == ws[s].peer = "gone" \/ Stopped(s)

\* C11: a session that the server has closed, whose client asked for a
\* duration of d seconds and stayed connected, has emitted between d and
\* d + 1 messages.
C11_DurationHonoured ==
    \A s \in Sessions :
        (ws[s].pc = "closed" /\ ws[s].peer = "open" /\ Configured(s)) =>
            /\ ws[s].inbound[1].duration_seconds <= ws[s].sent
            /\ ws[s].sent <= ws[s].inbound[1].duration_seconds + 1

\* C12: once a session is cancelled, by a disconnect or by a stop signal of
\* its client, no further message of that session is emitted.
C12_NoEmitAfterCancel ==
    [][\A s \in Sessions : Cancelled(s) => ws'[s].sent = ws[s].sent]_vars

\* C13: a message emitted while model-info reports no trained model carries
\* no prediction.
C13_NullPredictionUntrained ==
    \A s \in Sessions :
        (ws[s].pc = "line80" /\ ~model_info.trained) => ws[s].prediction = None

\* C14: a predict call on a window whose length is not sequence_length is
\* rejected (it returns no prediction); on a window of that length, with no
\* trained model, it returns "unknown" with confidence 0.
C14_PredictChecksLength ==
    response.op = "predict" =>
        IF response.window # model_info.sequence_length
          THEN "predicted_activity" \notin DOMAIN response.content
          ELSE response.content =
                 [predicted_activity |-> "unknown", confidence |-> 0]

\* C15: a step that changes one session (accept, send, failed send, sleep,
\* close, the disconnect of its client) leaves the training status, the
\* training threads, the pending train-model calls, what model-info reports
\* and every other session as they were; hence a step that changes the
\* training side leaves every session as it was.
C15_SessionScoped ==
    [][\A s \in Sessions :
          ws'[s] # ws[s] =>
              /\ training_status' = training_status
              /\ thread' = thread
              /\ pending' = pending
              /\ model_info' = model_info
              /\ \A r \in Sessions \ {s} : ws'[r] = ws[r]]_vars

C15_Witness ==
    \E s, r \in Sessions :
        /\ s # r
        /\ ws[s].pc = "error"
        /\ ws[r].pc = "line80" /\ ws[r].sent > 0
        /\ training_status = "training"
        /\ \E t \in Runs : thread[t] = "line55"

\* C16: the run history holds one record for each completed run: no record
\* of a completed run is removed or overwritten by a later run.
C16_HistoryKeepsRuns ==
    Cardinality({k \in 1..Len(get_training_status) :
                    get_training_status[k].status = "trained"})
        = Cardinality({t \in Runs : Done(t)})

\* C17: a session whose client stays connected comes to its close, and when
\* the server has closed it exactly StreamTicks messages were sent, whatever
\* the client sent; after the close the handler sends nothing and the
\* session stays closed.
C17_FiveThenClose ==
    /\ \A s \in Sessions :
         (ws[s].pc = "line79") ~> (ws[s].pc = "closed" \/ ws[s].peer = "gone")
    /\ [][\A s \in Sessions :
            /\ (ws'[s].pc = "closed" /\ ws'[s].peer = "open")
                  => ws'[s].sent = StreamTicks
            /\ ws[s].pc = "closed"
                  => (ws'[s].pc = "closed" /\ ws'[s].sent = ws[s].sent)]_vars

C17_Witness ==
    \E s \in Sessions :
        /\ ws[s].pc = "closed" /\ ws[s].peer = "open"
        /\ ws[s].sent = 5
        /\ ws[s].inbound = <<Config(3), Stop>>

====
